---- MODULE Spec2Model ----
(***************************************************************************)
(* Model of the CCAT network driver (src/netdev.c): the two frame rings    *)
(* (DMA and direct-memory backend), the submission path, the poll timer    *)
(* callback and the hardware that shares the ring memory with the driver.  *)
(*                                                                         *)
(* Addresses are byte offsets relative to the ring's base (fifo->mem.virt), *)
(* so `start` is 0 and a slot address is a multiple of FRAME_SIZE.          *)
(***************************************************************************)
EXTENDS Integers, Sequences, FiniteSets, TLC

(***************************************************************************)
(* Program constants                                                       *)
(***************************************************************************)
\* sizeof(struct ccat_eth_frame): u8 placeholder[0x800]
FRAME_SIZE == 2048

FIFO_LENGTH == 64

\* sizeof(struct frame_header_dma): 4 + 4 + 2 + 2 + 4 + 8
HDR_DMA_SIZE == 24

\* sizeof(struct frame_header_nodma): 2 + 2 + 4 + 8
HDR_NODMA_SIZE == 16

\* offsetof(struct frame_header_dma, rx_flags)
RX_FLAGS_OFFSET == 4

\* offsetof(struct frame_header_dma, length)
LENGTH_OFFSET == 8

\* sizeof(frameForwardEthernetFrames)
FORWARD_FRAME_LEN == 30

\* TX_FIFO_LEVEL_MASK = 0x3F
TX_FIFO_LEVEL_MASK == 63

\* largest value of the 16 bit length field of a frame header
U16_MAX == 65535

Max(a, b) == IF a > b THEN a ELSE b

MAX_PAYLOAD_SIZE == FRAME_SIZE - Max(HDR_DMA_SIZE, HDR_NODMA_SIZE)

\* the flash update function
CCAT_WRITE_BLOCK_SIZE == 128
CCAT_FLASH_SIZE == 917504

(***************************************************************************)
(* Bounds of the model                                                     *)
(***************************************************************************)
\* largest direct-memory window the device reports, in slots
MaxSlots == 2

\* events the hardware counts in its mac register: frames sent, frames
\* received, link losses
MaxHwEvents == 2

\* submitted frames the driver drops
MaxTxDropped == 1

\* processes that open the update device
MaxOpeners == 2

\* times in a row the flash reports busy to ccat_wait_status_cleared()
MaxStatusPolls == 1

\* largest file position a write to the update device ends at
MaxStaged == 257

Openers == 1..MaxOpeners

\* lengths of the writes to the update device
WriteLens ==
    {CCAT_WRITE_BLOCK_SIZE - 1, CCAT_WRITE_BLOCK_SIZE, CCAT_WRITE_BLOCK_SIZE + 1}

\* positions of the positional writes (pwrite) to the update device
WritePositions == {0, CCAT_WRITE_BLOCK_SIZE}

\* memory-window sizes a direct-memory device may report: for the transmit
\* window in half-slot steps, for the receive window in whole slots
WindowSizes == {k * (FRAME_SIZE \div 2) : k \in 1..(2 * MaxSlots)}

RxWindowSizes == {k * FRAME_SIZE : k \in 1..MaxSlots}

\* lengths the hardware may stamp into a receive header
RxLengths == {RX_FLAGS_OFFSET - 1, HDR_NODMA_SIZE - 1, HDR_NODMA_SIZE + 60, U16_MAX}

\* frames the network stack may hand to ndo_start_xmit
TxLengths == {60, MAX_PAYLOAD_SIZE, MAX_PAYLOAD_SIZE + 1}

VARIABLES
    attach,         \* the probe call: resources acquired and released, result
    mode,           \* "dma" | "iomem": the driver that probed the function
    info,           \* func->info: rx_size, tx_size reported by the device
    rx_fifo,        \* priv->rx_fifo: next, end, reg (has a fifo register)
    tx_fifo,        \* priv->tx_fifo
    rx_mem,         \* receive ring memory: slot address -> frame header
    tx_mem,         \* transmit ring memory: slot address -> frame header
    hw_rx_fifo,     \* words written to the rx fifo register, not yet used
    hw_tx_fifo,     \* frames written to the tx fifo register, not yet sent
    hw_link,        \* link bit of the mii register
    mac,            \* struct ccat_mac_register: hardware counters
    carrier,        \* netif_carrier_ok(netdev)
    queue_stopped,  \* netif_queue_stopped(netdev)
    rx_bytes, rx_dropped, tx_bytes, tx_dropped,
    pc,             \* position of the poll timer callback
    rx_len,         \* local `len` of poll_rx
    admin,          \* "down" | "up" | "stopping": ndo_open / ndo_stop;
                    \* "removed": the function was detached, rings released;
                    \* "failed": the probe returned an error
    last_xmit,      \* result of the last ccat_eth_start_xmit call
    crashed         \* the kernel dereferenced a NULL pointer

VARIABLES
    in_use,         \* update->in_use of the flash update device
    file,           \* per process: its call on the update device and its
                    \* struct file (f_pos) with its update_buffer (size)
    flash_cmds      \* flash commands the ccat_update_release() call in
                    \* progress has issued, in order

netdev_vars ==
    <<attach, mode, info, rx_fifo, tx_fifo, rx_mem, tx_mem, hw_rx_fifo, hw_tx_fifo,
      hw_link, mac, carrier, queue_stopped, rx_bytes, rx_dropped, tx_bytes,
      tx_dropped, pc, rx_len, admin, last_xmit, crashed>>

update_vars == <<in_use, file, flash_cmds>>

vars == <<netdev_vars, update_vars>>

(***************************************************************************)
(* Ring geometry and cursor                                                *)
(***************************************************************************)
\* slot addresses the cursor can take: start, start + FRAME_SIZE, ... <= end
RingSlots(fifo) ==
    {0} \cup {k * FRAME_SIZE : k \in 0..(IF fifo.end < 0 THEN 0 ELSE fifo.end \div FRAME_SIZE)}

\* a zeroed frame (dma_zalloc_coherent)
ZeroFrame == [rx_flags |-> 0, length |-> 0, tx_flags |-> 0, data |-> "none"]

\* ccat_eth_fifo_inc() comparing with >= instead of >
ccat_eth_fifo_inc_early_wrap(fifo) ==
    [fifo EXCEPT !.next = IF fifo.next + FRAME_SIZE >= fifo.end
                          THEN 0 ELSE fifo.next + FRAME_SIZE]

\* ccat_eth_fifo_inc(): ++next, wrap to virt when past end
ccat_eth_fifo_inc(fifo) ==
    [fifo EXCEPT !.next = IF fifo.next + FRAME_SIZE > fifo.end
                          THEN 0 ELSE fifo.next + FRAME_SIZE]

\* k-fold application of ccat_eth_fifo_inc
RECURSIVE IncTimes(_, _)
IncTimes(fifo, k) == IF k = 0 THEN fifo ELSE IncTimes(ccat_eth_fifo_inc(fifo), k - 1)

(***************************************************************************)
(* Backend operations.  A ring is a record r = [fifo, mem, hw, log]: the    *)
(* struct ccat_eth_fifo, the frames of its memory, what the hardware fifo  *)
(* behind fifo->reg holds, and the register writes and fifo->add calls     *)
(* made on the ring during the operation at hand.                          *)
(***************************************************************************)
Pow2(n) == 2 ^ n

\* fifo_iomem_tx_ready(): the masked tx fifo level reads zero
fifo_iomem_tx_ready(hw) == (Len(hw) % 128) % (TX_FIFO_LEVEL_MASK + 1) = 0

\* fifo_dma_tx_ready(): CCAT_FRAME_SENT of the frame at the cursor
fifo_dma_tx_ready(fifo, mem) == mem[fifo.next].tx_flags % 2 = 1

tx_ready(m, r) ==
    IF m = "dma" THEN fifo_dma_tx_ready(r.fifo, r.mem) ELSE fifo_iomem_tx_ready(r.hw)

\* fifo_iomem_rx_ready() returning the stored length as it is
fifo_iomem_rx_ready_raw(fifo, mem) == mem[fifo.next].length

\* fifo_iomem_rx_ready()
fifo_iomem_rx_ready(fifo, mem) ==
    LET len == mem[fifo.next].length
    IN  IF len < HDR_NODMA_SIZE THEN 0 ELSE len - HDR_NODMA_SIZE

\* fifo_dma_rx_ready() without its test of CCAT_FRAME_RECEIVED
fifo_dma_rx_ready_unflagged(fifo, mem) ==
    LET len == mem[fifo.next].length
    IN  IF len < RX_FLAGS_OFFSET THEN 0 ELSE len - RX_FLAGS_OFFSET

\* fifo_dma_rx_ready()
fifo_dma_rx_ready(fifo, mem) ==
    IF mem[fifo.next].rx_flags % 2 = 1
    THEN LET len == mem[fifo.next].length
         IN  IF len < RX_FLAGS_OFFSET THEN 0 ELSE len - RX_FLAGS_OFFSET
    ELSE 0

rx_ready(m, fifo, mem) ==
    IF m = "dma" THEN fifo_dma_rx_ready(fifo, mem) ELSE fifo_iomem_rx_ready(fifo, mem)

\* the 32 bit word (1 << 31) | offset, as its bit 31 and its low 31 bits (a
\* ring offset is below 2^31)
DmaRxWord(next) == [valid |-> 1, addr |-> next]

\* ccat_eth_rx_fifo_dma_add() without `frame->hdr.rx_flags = cpu_to_le32(0)`
ccat_eth_rx_fifo_dma_add_keep_flag(r) ==
    [r EXCEPT !.hw = Append(r.hw, DmaRxWord(r.fifo.next))]

\* ccat_eth_rx_fifo_dma_add(): clear rx_flags, queue the slot in the rx fifo
ccat_eth_rx_fifo_dma_add(r) ==
    [r EXCEPT !.mem[r.fifo.next].rx_flags = 0,
              !.hw = Append(r.hw, DmaRxWord(r.fifo.next))]

\* ccat_eth_tx_fifo_dma_add_free(): mark the frame as ready to use for tx
ccat_eth_tx_fifo_dma_add_free(r) == [r EXCEPT !.mem[r.fifo.next].tx_flags = 1]

\* fifo_iomem_rx_add(): iowrite16(0, frame)
fifo_iomem_rx_add(r) == [r EXCEPT !.mem[r.fifo.next].length = 0]

\* fifo_iomem_tx_add(): empty
fifo_iomem_tx_add(r) == r

\* fifo->add(fifo) of the ring in direction dir ("rx" | "tx")
FifoAdd(m, dir, r) ==
    LET added == IF m = "dma"
                 THEN IF dir = "rx" THEN ccat_eth_rx_fifo_dma_add(r)
                                    ELSE ccat_eth_tx_fifo_dma_add_free(r)
                 ELSE IF dir = "rx" THEN fifo_iomem_rx_add(r)
                                    ELSE fifo_iomem_tx_add(r)
    IN  [added EXCEPT !.log = Append(@, <<"add", r.fifo.next>>)]

\* if (fifo->reg) iowrite32(0, fifo->reg + 0x8): the hardware fifo drops what
\* it holds
HwFifoReset(r) ==
    IF r.fifo.reg
    THEN [r EXCEPT !.hw = <<>>, !.log = Append(@, <<"reg_reset">>)]
    ELSE r

\* the do { add; inc } while (next != virt) loop of ccat_eth_fifo_reset()
RECURSIVE ResetWalk(_, _, _)
ResetWalk(m, dir, r) ==
    LET added == FifoAdd(m, dir, r)
        moved == [added EXCEPT !.fifo = ccat_eth_fifo_inc(added.fifo)]
    IN  IF moved.fifo.next # 0 THEN ResetWalk(m, dir, moved) ELSE moved

\* ccat_eth_fifo_reset() without `fifo->mem.next = fifo->mem.virt`
ccat_eth_fifo_reset_from_cursor(m, dir, r) == ResetWalk(m, dir, HwFifoReset(r))

\* ccat_eth_fifo_reset() whose `if (fifo->add)` branch is not taken
ccat_eth_fifo_reset_no_walk(m, dir, r) == HwFifoReset(r)

\* ccat_eth_fifo_reset()
ccat_eth_fifo_reset(m, dir, r) ==
    ResetWalk(m, dir, [HwFifoReset(r) EXCEPT !.fifo.next = 0])

\* the 32 bit word fifo_dma_queue_skb() writes to the tx fifo register, as its
\* top 8 bits and its low 24 bits:
\* offsetof(length) + offset + (((len + sizeof(header)) / 8) << 24)
DmaTxWord(next, len) ==
    LET low == LENGTH_OFFSET + next
    IN  [size |-> ((len + HDR_DMA_SIZE) \div 8 + low \div Pow2(24)) % Pow2(8),
         addr |-> low % Pow2(24)]

\* fifo_dma_queue_skb(): its stores and barriers in program order; "reg" is
\* the iowrite32() to the fifo register, "wmb" would be a wmb()
fifo_dma_queue_skb_stores == <<"tx_flags", "length", "data", "reg">>

\* fifo_iomem_queue_skb(): its stores and barriers in program order
fifo_iomem_queue_skb_stores == <<"length", "data", "reg">>

\* fifo_dma_queue_skb()
fifo_dma_queue_skb(r, skb) ==
    [r EXCEPT !.mem[r.fifo.next].tx_flags = 0,
              !.mem[r.fifo.next].length = skb.len % Pow2(16),
              !.mem[r.fifo.next].data = skb.data,
              !.hw = Append(r.hw, [word |-> DmaTxWord(r.fifo.next, skb.len),
                                   slot |-> r.fifo.next, frame |-> skb,
                                   stores |-> fifo_dma_queue_skb_stores])]

\* fifo_iomem_queue_skb()
fifo_iomem_queue_skb(r, skb) ==
    [r EXCEPT !.mem[r.fifo.next].length = skb.len % Pow2(16),
              !.mem[r.fifo.next].data = skb.data,
              !.hw = Append(r.hw, [word |-> [size |-> 0, addr |-> r.fifo.next],
                                   slot |-> r.fifo.next, frame |-> skb,
                                   stores |-> fifo_iomem_queue_skb_stores])]

queue_skb(m, r, skb) ==
    IF m = "dma" THEN fifo_dma_queue_skb(r, skb) ELSE fifo_iomem_queue_skb(r, skb)

(***************************************************************************)
(* Attach of the DMA driver: the resources it acquires and releases.  An    *)
(* attach a = [log, ret, registered] records the acquire and release calls  *)
(* in order; `fail` names the call that fails ("none": no call fails).      *)
(***************************************************************************)
Acquire(a, res) == [a EXCEPT !.log = Append(@, <<"acquire", res>>)]

Release(a, res) == [a EXCEPT !.log = Append(@, <<"release", res>>)]

\* ccat_dma_free(): free_dma(channel), then dma_free_coherent()
ccat_dma_free(a, ring) == Release(Release(a, <<ring, "chan">>), <<ring, "mem">>)

\* ccat_dma_init(): dma_zalloc_coherent(), then request_dma()
ccat_dma_init(a, ring, fail) ==
    IF fail = <<ring, "mem">>
    THEN [a EXCEPT !.ret = -1]
    ELSE LET got == Acquire(a, <<ring, "mem">>)
         IN  IF fail = <<ring, "chan">>
             THEN [ccat_dma_free(got, ring) EXCEPT !.ret = -1]
             ELSE [Acquire(got, <<ring, "chan">>) EXCEPT !.ret = 0]

\* ccat_eth_priv_init_dma(): the two ccat_dma_init() calls
ccat_eth_priv_init_dma_alloc(a, fail) ==
    LET rx == ccat_dma_init(a, "rx", fail)
    IN  IF rx.ret # 0
        THEN rx
        ELSE LET tx == ccat_dma_init(rx, "tx", fail)
             IN  IF tx.ret # 0
                 THEN [ccat_dma_free(tx, "rx") EXCEPT !.ret = -1]
                 ELSE tx

\* ccat_eth_priv_free_dma(): release dma
ccat_eth_priv_free_dma(a) == ccat_dma_free(ccat_dma_free(a, "rx"), "tx")

\* ccat_eth_init_netdev(): register_netdev()
ccat_eth_init_netdev(a, fail) ==
    IF fail = <<"netdev", "register">>
    THEN [Release(ccat_eth_priv_free_dma(a), <<"netdev", "alloc">>) EXCEPT !.ret = -1]
    ELSE [a EXCEPT !.registered = TRUE, !.ret = 0]

\* ccat_eth_dma_probe()
ccat_eth_dma_probe(fail) ==
    LET a0 == [log |-> <<>>, ret |-> 0, registered |-> FALSE]
    IN  IF fail = <<"netdev", "alloc">>
        THEN [a0 EXCEPT !.ret = -12]
        ELSE LET priv == ccat_eth_priv_init_dma_alloc(Acquire(a0, <<"netdev", "alloc">>), fail)
             IN  IF priv.ret # 0
                 THEN [Release(priv, <<"netdev", "alloc">>) EXCEPT !.ret = -1]
                 ELSE ccat_eth_init_netdev(priv, fail)

\* ccat_eth_iomem_probe(): nothing to acquire but the netdev
ccat_eth_iomem_probe ==
    [log |-> << <<"acquire", <<"netdev", "alloc">>>> >>, ret |-> 0, registered |-> TRUE]

\* the calls of a DMA attach that may fail
AttachFailures ==
    {<<"rx", "mem">>, <<"rx", "chan">>, <<"tx", "mem">>, <<"tx", "chan">>,
     <<"netdev", "register">>}

NoFailure == <<"none", "none">>

(***************************************************************************)
(* Construction: the state after a probe                                   *)
(***************************************************************************)
\* a ring over freshly mapped (zeroed) memory
NewRing(end, reg) ==
    LET fifo == [next |-> 0, end |-> end, reg |-> reg]
    IN  [fifo |-> fifo, mem |-> [s \in RingSlots(fifo) |-> ZeroFrame], hw |-> <<>>,
         log |-> <<>>]

\* fifo.end of both DMA rings: dma.virt is a void pointer, so
\* `dma.virt + FIFO_LENGTH - 1` is byte arithmetic
DmaFifoEnd == 0 + FIFO_LENGTH - 1

\* rx_fifo.end of the direct-memory receive ring: `rx_fifo.dma.virt`
IomemRxFifoEnd(size) == 0

\* tx_fifo.end of the direct-memory transmit ring:
\* `tx_fifo.dma.virt + tx_fifo.dma.size - sizeof(struct ccat_eth_frame)`
IomemTxFifoEnd(size) == 0 + size - FRAME_SIZE

\* ccat_eth_priv_init_dma(): both rings, reset
ccat_eth_priv_init_dma ==
    [rx |-> ccat_eth_fifo_reset("dma", "rx", NewRing(DmaFifoEnd, TRUE)),
     tx |-> ccat_eth_fifo_reset("dma", "tx", NewRing(DmaFifoEnd, TRUE))]

\* ccat_eth_priv_init_nodma(): both rings, reset; rx_fifo.reg = NULL
ccat_eth_priv_init_nodma(i) ==
    [rx |-> ccat_eth_fifo_reset("iomem", "rx", NewRing(IomemRxFifoEnd(i.rx_size), FALSE)),
     tx |-> ccat_eth_fifo_reset("iomem", "tx", NewRing(IomemTxFifoEnd(i.tx_size), TRUE))]

\* ccat_eth_dma_probe() / ccat_eth_iomem_probe() followed by ccat_eth_init_netdev()
Probe(m, i) ==
    LET rings == IF m = "dma" THEN ccat_eth_priv_init_dma ELSE ccat_eth_priv_init_nodma(i)
    IN  /\ mode = m
        /\ info = i
        /\ rx_fifo = rings.rx.fifo
        /\ rx_mem = rings.rx.mem
        /\ hw_rx_fifo = rings.rx.hw
        /\ tx_fifo = rings.tx.fifo
        /\ tx_mem = rings.tx.mem
        /\ hw_tx_fifo = rings.tx.hw
        /\ carrier = FALSE
        /\ queue_stopped = FALSE
        /\ rx_bytes = 0 /\ rx_dropped = 0 /\ tx_bytes = 0 /\ tx_dropped = 0

\* a DMA probe that returned an error: no interface, rings never armed or
\* released again, hardware fifos empty
FailedProbe ==
    /\ mode = "dma"
    /\ info = [rx_size |-> 0, tx_size |-> 0]
    /\ rx_fifo = NewRing(DmaFifoEnd, TRUE).fifo
    /\ rx_mem = NewRing(DmaFifoEnd, TRUE).mem
    /\ hw_rx_fifo = <<>>
    /\ tx_fifo = NewRing(DmaFifoEnd, TRUE).fifo
    /\ tx_mem = NewRing(DmaFifoEnd, TRUE).mem
    /\ hw_tx_fifo = <<>>
    /\ carrier = FALSE
    /\ queue_stopped = FALSE
    /\ rx_bytes = 0 /\ rx_dropped = 0 /\ tx_bytes = 0 /\ tx_dropped = 0

\* a process that has no call on the update device in progress and no handle
ClosedFile == [pc |-> "closed", ret |-> "none", f_pos |-> 0, size |-> 0,
               off |-> 0, len |-> 0, polls |-> 0,
               count |-> 0, copied |-> [at |-> 0, bytes |-> 0]]

\* ccat_update_probe(): atomic_set(&update->in_use, 1)
ccat_update_probe ==
    /\ in_use = 1
    /\ file = [p \in Openers |-> ClosedFile]
    /\ flash_cmds = <<>>

\* the network function after its probe
NetdevInit ==
    /\ \/ \E fail \in AttachFailures \cup {NoFailure} :
              /\ attach = ccat_eth_dma_probe(fail)
              /\ IF attach.ret = 0
                 THEN Probe("dma", [rx_size |-> 0, tx_size |-> 0])
                 ELSE FailedProbe
       \/ \E rs \in RxWindowSizes, ts \in WindowSizes :
              /\ attach = ccat_eth_iomem_probe
              /\ Probe("iomem", [rx_size |-> rs, tx_size |-> ts])
    /\ hw_link = FALSE
    /\ mac = [tx_frames |-> 0, rx_frames |-> 0, link_lost_err |-> 0]
    /\ pc = "off"
    /\ rx_len = 0
    /\ admin = IF attach.ret = 0 THEN "down" ELSE "failed"
    /\ last_xmit = [ret |-> "none", freed |-> FALSE]
    /\ crashed = FALSE

Init ==
    /\ ccat_update_probe
    /\ NetdevInit

RxRing == [fifo |-> rx_fifo, mem |-> rx_mem, hw |-> hw_rx_fifo, log |-> <<>>]

TxRing == [fifo |-> tx_fifo, mem |-> tx_mem, hw |-> hw_tx_fifo, log |-> <<>>]

(***************************************************************************)
(* Submission path                                                         *)
(***************************************************************************)
\* the transmit side of priv as ccat_eth_start_xmit() sees it
TxSide == [r |-> TxRing, tx_bytes |-> tx_bytes, tx_dropped |-> tx_dropped,
           queue_stopped |-> queue_stopped, ret |-> "none", freed |-> FALSE]

\* ccat_eth_start_xmit() without its `if (!priv->tx_ready(priv))` rejection
ccat_eth_start_xmit_unchecked(m, t, skb) ==
    IF skb.nonlinear \/ skb.len > MAX_PAYLOAD_SIZE
    THEN [t EXCEPT !.tx_dropped = @ + 1, !.ret = "NETDEV_TX_OK", !.freed = TRUE]
    ELSE LET queued == queue_skb(m, t.r, skb)
             moved == [queued EXCEPT !.fifo = ccat_eth_fifo_inc(queued.fifo)]
         IN  [t EXCEPT !.r = moved,
                       !.tx_bytes = @ + skb.len,
                       !.queue_stopped = IF ~tx_ready(m, moved) THEN TRUE ELSE @,
                       !.ret = "NETDEV_TX_OK",
                       !.freed = TRUE]

\* ccat_eth_start_xmit() without the netif_stop_queue() that follows
\* ccat_eth_fifo_inc()
ccat_eth_start_xmit_no_pause(m, t, skb) ==
    IF skb.nonlinear \/ skb.len > MAX_PAYLOAD_SIZE
    THEN [t EXCEPT !.tx_dropped = @ + 1, !.ret = "NETDEV_TX_OK", !.freed = TRUE]
    ELSE IF ~tx_ready(m, t.r)
    THEN [t EXCEPT !.queue_stopped = TRUE, !.ret = "NETDEV_TX_BUSY", !.freed = FALSE]
    ELSE LET queued == queue_skb(m, t.r, skb)
             moved == [queued EXCEPT !.fifo = ccat_eth_fifo_inc(queued.fifo)]
         IN  [t EXCEPT !.r = moved,
                       !.tx_bytes = @ + skb.len,
                       !.ret = "NETDEV_TX_OK",
                       !.freed = TRUE]

\* ccat_eth_start_xmit() without its `skb->len > MAX_PAYLOAD_SIZE` rejection
ccat_eth_start_xmit_any_len(m, t, skb) ==
    IF skb.nonlinear
    THEN [t EXCEPT !.tx_dropped = @ + 1, !.ret = "NETDEV_TX_OK", !.freed = TRUE]
    ELSE IF ~tx_ready(m, t.r)
    THEN [t EXCEPT !.queue_stopped = TRUE, !.ret = "NETDEV_TX_BUSY", !.freed = FALSE]
    ELSE LET queued == queue_skb(m, t.r, skb)
             moved == [queued EXCEPT !.fifo = ccat_eth_fifo_inc(queued.fifo)]
         IN  [t EXCEPT !.r = moved,
                       !.tx_bytes = @ + skb.len,
                       !.queue_stopped = IF ~tx_ready(m, moved) THEN TRUE ELSE @,
                       !.ret = "NETDEV_TX_OK",
                       !.freed = TRUE]

\* ccat_eth_start_xmit() that prepares the frame before it tests tx_ready
ccat_eth_start_xmit_busy_writes(m, t, skb) ==
    IF skb.nonlinear \/ skb.len > MAX_PAYLOAD_SIZE
    THEN [t EXCEPT !.tx_dropped = @ + 1, !.ret = "NETDEV_TX_OK", !.freed = TRUE]
    ELSE IF ~tx_ready(m, t.r)
    THEN [t EXCEPT !.r = queue_skb(m, t.r, skb),
                   !.queue_stopped = TRUE, !.ret = "NETDEV_TX_BUSY", !.freed = FALSE]
    ELSE LET queued == queue_skb(m, t.r, skb)
             moved == [queued EXCEPT !.fifo = ccat_eth_fifo_inc(queued.fifo)]
         IN  [t EXCEPT !.r = moved,
                       !.tx_bytes = @ + skb.len,
                       !.queue_stopped = IF ~tx_ready(m, moved) THEN TRUE ELSE @,
                       !.ret = "NETDEV_TX_OK",
                       !.freed = TRUE]

\* ccat_eth_start_xmit() that drops and counts the frame when the ring is not
\* ready
ccat_eth_start_xmit_busy_dropped(m, t, skb) ==
    IF skb.nonlinear \/ skb.len > MAX_PAYLOAD_SIZE
    THEN [t EXCEPT !.tx_dropped = @ + 1, !.ret = "NETDEV_TX_OK", !.freed = TRUE]
    ELSE IF ~tx_ready(m, t.r)
    THEN [t EXCEPT !.tx_dropped = @ + 1, !.ret = "NETDEV_TX_OK", !.freed = TRUE]
    ELSE LET queued == queue_skb(m, t.r, skb)
             moved == [queued EXCEPT !.fifo = ccat_eth_fifo_inc(queued.fifo)]
         IN  [t EXCEPT !.r = moved,
                       !.tx_bytes = @ + skb.len,
                       !.queue_stopped = IF ~tx_ready(m, moved) THEN TRUE ELSE @,
                       !.ret = "NETDEV_TX_OK",
                       !.freed = TRUE]

\* ccat_eth_start_xmit()
ccat_eth_start_xmit(m, t, skb) ==
    IF skb.nonlinear \/ skb.len > MAX_PAYLOAD_SIZE
    THEN [t EXCEPT !.tx_dropped = @ + 1, !.ret = "NETDEV_TX_OK", !.freed = TRUE]
    ELSE IF ~tx_ready(m, t.r)
    THEN [t EXCEPT !.queue_stopped = TRUE, !.ret = "NETDEV_TX_BUSY", !.freed = FALSE]
    ELSE LET queued == queue_skb(m, t.r, skb)
             moved == [queued EXCEPT !.fifo = ccat_eth_fifo_inc(queued.fifo)]
         IN  [t EXCEPT !.r = moved,
                       !.tx_bytes = @ + skb.len,
                       !.queue_stopped = IF ~tx_ready(m, moved) THEN TRUE ELSE @,
                       !.ret = "NETDEV_TX_OK",
                       !.freed = TRUE]

\* the transmit side of priv after a call
SetTxSide(t) ==
    /\ tx_fifo' = t.r.fifo
    /\ tx_mem' = t.r.mem
    /\ hw_tx_fifo' = t.r.hw
    /\ tx_bytes' = t.tx_bytes
    /\ tx_dropped' = t.tx_dropped
    /\ last_xmit' = [ret |-> t.ret, freed |-> t.freed]

\* the network stack calls ndo_start_xmit on an open interface with carrier
\* whose queue is awake
StartXmit ==
    /\ ~crashed
    /\ admin = "up" /\ carrier /\ ~queue_stopped
    /\ \E len \in TxLengths, nonlinear \in BOOLEAN :
         LET skb == [len |-> len, nonlinear |-> nonlinear, data |-> "skb"]
             t == ccat_eth_start_xmit(mode, TxSide, skb)
         IN  /\ t.tx_dropped <= MaxTxDropped
             /\ SetTxSide(t)
             /\ queue_stopped' = t.queue_stopped
    /\ UNCHANGED <<update_vars, attach, mode, info, rx_fifo, rx_mem, hw_rx_fifo, hw_link, mac, carrier,
                   rx_bytes, rx_dropped, pc, rx_len, admin, crashed>>

(***************************************************************************)
(* Poll timer callback: poll_link, poll_rx, poll_tx                        *)
(***************************************************************************)
\* the frame ccat_eth_xmit_raw() builds from frameForwardEthernetFrames
ForwardSkb == [len |-> FORWARD_FRAME_LEN, nonlinear |-> FALSE, data |-> "forward"]

\* ccat_eth_link_up(): reset both rings, send the forwarding frame, carrier
\* on, start the queue.  dev_alloc_skb() may return NULL, which
\* ccat_eth_xmit_raw() dereferences.
ccat_eth_link_up(alloc_ok) ==
    LET rx == ccat_eth_fifo_reset(mode, "rx", RxRing)
        tx == ccat_eth_fifo_reset(mode, "tx", TxRing)
        t == ccat_eth_start_xmit(mode, [TxSide EXCEPT !.r = tx], ForwardSkb)
    IN  /\ rx_fifo' = rx.fifo
        /\ rx_mem' = rx.mem
        /\ hw_rx_fifo' = rx.hw
        /\ IF alloc_ok
           THEN /\ SetTxSide(t)
                /\ carrier' = TRUE
                /\ queue_stopped' = FALSE
                /\ crashed' = FALSE
                /\ pc' = "rx"
           ELSE /\ tx_fifo' = tx.fifo
                /\ tx_mem' = tx.mem
                /\ hw_tx_fifo' = tx.hw
                /\ crashed' = TRUE
                /\ UNCHANGED <<tx_bytes, tx_dropped, last_xmit, carrier, queue_stopped, pc>>

\* ccat_eth_link_down()
ccat_eth_link_down ==
    /\ queue_stopped' = TRUE
    /\ carrier' = FALSE
    /\ pc' = "rx"
    /\ UNCHANGED <<rx_fifo, rx_mem, hw_rx_fifo, tx_fifo, tx_mem, hw_tx_fifo,
                   tx_bytes, tx_dropped, last_xmit, crashed>>

\* the timer fires: poll_timer_callback() runs poll_link()
poll_link ==
    /\ ~crashed
    /\ pc = "idle"
    /\ IF hw_link # carrier
       THEN IF hw_link
            THEN \E alloc_ok \in BOOLEAN : ccat_eth_link_up(alloc_ok)
            ELSE ccat_eth_link_down
       ELSE /\ pc' = "rx"
            /\ UNCHANGED <<rx_fifo, rx_mem, hw_rx_fifo, tx_fifo, tx_mem, hw_tx_fifo,
                           tx_bytes, tx_dropped, last_xmit, crashed, carrier,
                           queue_stopped>>
    /\ UNCHANGED <<update_vars, attach, mode, info, hw_link, mac, rx_bytes, rx_dropped, rx_len, admin>>

\* poll_rx(): len = priv->rx_ready(fifo); while (len) ...
poll_rx_ready ==
    /\ ~crashed
    /\ pc = "rx"
    /\ rx_len' = rx_ready(mode, rx_fifo, rx_mem)
    /\ pc' = IF rx_len' # 0 THEN "rx_receive" ELSE "tx"
    /\ UNCHANGED <<update_vars, attach, mode, info, rx_fifo, tx_fifo, rx_mem, tx_mem, hw_rx_fifo,
                   hw_tx_fifo, hw_link, mac, carrier, queue_stopped, rx_bytes,
                   rx_dropped, tx_bytes, tx_dropped, admin, last_xmit, crashed>>

\* ccat_eth_receive() without the `if (!skb)` check: a NULL skb is used
ccat_eth_receive_unchecked ==
    /\ ~crashed
    /\ pc = "rx_receive"
    /\ \E alloc_ok \in BOOLEAN :
         IF alloc_ok
         THEN /\ rx_bytes' = rx_bytes + rx_len
              /\ pc' = "rx_add"
              /\ UNCHANGED <<rx_dropped, crashed>>
         ELSE /\ crashed' = TRUE
              /\ UNCHANGED <<rx_bytes, rx_dropped, pc>>
    /\ UNCHANGED <<update_vars, attach, mode, info, rx_fifo, tx_fifo, rx_mem, tx_mem, hw_rx_fifo,
                   hw_tx_fifo, hw_link, mac, carrier, queue_stopped, tx_bytes,
                   tx_dropped, rx_len, admin, last_xmit>>

\* ccat_eth_receive() without `atomic64_add(len, &priv->rx_bytes)`
ccat_eth_receive_uncounted ==
    /\ ~crashed
    /\ pc = "rx_receive"
    /\ \E alloc_ok \in BOOLEAN :
         IF alloc_ok
         THEN UNCHANGED <<rx_bytes, rx_dropped>>
         ELSE /\ rx_dropped' = rx_dropped + 1
              /\ UNCHANGED rx_bytes
    /\ pc' = "rx_add"
    /\ UNCHANGED <<update_vars, attach, mode, info, rx_fifo, tx_fifo, rx_mem, tx_mem, hw_rx_fifo,
                   hw_tx_fifo, hw_link, mac, carrier, queue_stopped, tx_bytes,
                   tx_dropped, rx_len, admin, last_xmit, crashed>>

\* poll_rx(): ccat_eth_receive(priv->netdev, len)
ccat_eth_receive ==
    /\ ~crashed
    /\ pc = "rx_receive"
    /\ \E alloc_ok \in BOOLEAN :
         IF alloc_ok
         THEN /\ rx_bytes' = rx_bytes + rx_len
              /\ UNCHANGED rx_dropped
         ELSE /\ rx_dropped' = rx_dropped + 1
              /\ UNCHANGED rx_bytes
    /\ pc' = "rx_add"
    /\ UNCHANGED <<update_vars, attach, mode, info, rx_fifo, tx_fifo, rx_mem, tx_mem, hw_rx_fifo,
                   hw_tx_fifo, hw_link, mac, carrier, queue_stopped, tx_bytes,
                   tx_dropped, rx_len, admin, last_xmit, crashed>>

\* poll_rx(): fifo->add(fifo)
poll_rx_add ==
    /\ ~crashed
    /\ pc = "rx_add"
    /\ LET r == FifoAdd(mode, "rx", RxRing)
       IN  /\ rx_mem' = r.mem
           /\ hw_rx_fifo' = r.hw
    /\ pc' = "rx_inc"
    /\ UNCHANGED <<update_vars, attach, mode, info, rx_fifo, tx_fifo, tx_mem, hw_tx_fifo, hw_link, mac,
                   carrier, queue_stopped, rx_bytes, rx_dropped, tx_bytes,
                   tx_dropped, rx_len, admin, last_xmit, crashed>>

\* poll_rx(): ccat_eth_fifo_inc(fifo), then rx_ready again
poll_rx_inc ==
    /\ ~crashed
    /\ pc = "rx_inc"
    /\ rx_fifo' = ccat_eth_fifo_inc(rx_fifo)
    /\ pc' = "rx"
    /\ UNCHANGED <<update_vars, attach, mode, info, tx_fifo, rx_mem, tx_mem, hw_rx_fifo, hw_tx_fifo,
                   hw_link, mac, carrier, queue_stopped, rx_bytes, rx_dropped,
                   tx_bytes, tx_dropped, rx_len, admin, last_xmit, crashed>>

\* poll_tx(), then hrtimer_forward_now() and HRTIMER_RESTART
poll_tx ==
    /\ ~crashed
    /\ pc = "tx"
    /\ queue_stopped' = IF tx_ready(mode, TxRing) THEN FALSE ELSE queue_stopped
    /\ pc' = "idle"
    /\ UNCHANGED <<update_vars, attach, mode, info, rx_fifo, tx_fifo, rx_mem, tx_mem, hw_rx_fifo,
                   hw_tx_fifo, hw_link, mac, carrier, rx_bytes, rx_dropped,
                   tx_bytes, tx_dropped, rx_len, admin, last_xmit, crashed>>

(***************************************************************************)
(* ndo_open / ndo_stop                                                     *)
(***************************************************************************)
\* ccat_eth_open(): hrtimer_start()
ccat_eth_open ==
    /\ ~crashed
    /\ admin = "down"
    /\ admin' = "up"
    /\ pc' = "idle"
    /\ UNCHANGED <<update_vars, attach, mode, info, rx_fifo, tx_fifo, rx_mem, tx_mem, hw_rx_fifo,
                   hw_tx_fifo, hw_link, mac, carrier, queue_stopped, rx_bytes,
                   rx_dropped, tx_bytes, tx_dropped, rx_len, last_xmit, crashed>>

\* ccat_eth_stop(): netif_stop_queue()
ccat_eth_stop ==
    /\ ~crashed
    /\ admin = "up"
    /\ admin' = "stopping"
    /\ queue_stopped' = TRUE
    /\ UNCHANGED <<update_vars, attach, mode, info, rx_fifo, tx_fifo, rx_mem, tx_mem, hw_rx_fifo,
                   hw_tx_fifo, hw_link, mac, carrier, rx_bytes, rx_dropped,
                   tx_bytes, tx_dropped, pc, rx_len, last_xmit, crashed>>

\* ccat_eth_stop() with hrtimer_try_to_cancel(), which does not wait for a
\* running callback
hrtimer_try_to_cancel ==
    /\ ~crashed
    /\ admin = "stopping"
    /\ admin' = "down"
    /\ pc' = IF pc = "idle" THEN "off" ELSE pc
    /\ UNCHANGED <<update_vars, attach, mode, info, rx_fifo, tx_fifo, rx_mem, tx_mem, hw_rx_fifo,
                   hw_tx_fifo, hw_link, mac, carrier, queue_stopped, rx_bytes,
                   rx_dropped, tx_bytes, tx_dropped, rx_len, last_xmit, crashed>>

\* ccat_eth_stop(): hrtimer_cancel() returns once no callback is running
hrtimer_cancel ==
    /\ ~crashed
    /\ admin = "stopping"
    /\ pc = "idle"
    /\ admin' = "down"
    /\ pc' = "off"
    /\ UNCHANGED <<update_vars, attach, mode, info, rx_fifo, tx_fifo, rx_mem, tx_mem, hw_rx_fifo,
                   hw_tx_fifo, hw_link, mac, carrier, queue_stopped, rx_bytes,
                   rx_dropped, tx_bytes, tx_dropped, rx_len, last_xmit, crashed>>

\* ccat_eth_dma_remove() / ccat_eth_iomem_remove(): unregister_netdev() has
\* closed the interface (ccat_eth_stop above); priv->free() zeroes the fifo
\* registers and, with DMA, releases both rings; free_netdev()
ccat_eth_remove ==
    /\ ~crashed
    /\ admin = "down"
    /\ admin' = "removed"
    /\ hw_tx_fifo' = <<>>
    /\ hw_rx_fifo' = IF mode = "dma" THEN <<>> ELSE hw_rx_fifo
    /\ UNCHANGED <<update_vars, attach, mode, info, rx_fifo, tx_fifo, rx_mem, tx_mem, hw_link, mac,
                   carrier, queue_stopped, rx_bytes, rx_dropped, tx_bytes,
                   tx_dropped, pc, rx_len, last_xmit, crashed>>

(***************************************************************************)
(* The CCAT hardware                                                       *)
(***************************************************************************)
\* events counted by the mac register so far
HwEvents == mac.tx_frames + mac.rx_frames + mac.link_lost_err

\* the link bit of the mii register changes; a loss is counted in
\* mac.link_lost_err
HwLinkChange ==
    /\ ~crashed
    /\ hw_link' = ~hw_link
    /\ IF hw_link
       THEN /\ HwEvents < MaxHwEvents
            /\ mac' = [mac EXCEPT !.link_lost_err = @ + 1]
       ELSE UNCHANGED mac
    /\ UNCHANGED <<update_vars, attach, mode, info, rx_fifo, tx_fifo, rx_mem, tx_mem, hw_rx_fifo,
                   hw_tx_fifo, carrier, queue_stopped, rx_bytes, rx_dropped,
                   tx_bytes, tx_dropped, pc, rx_len, admin, last_xmit, crashed>>

\* the hardware sends the oldest queued frame; the DMA engine then sets
\* CCAT_FRAME_SENT in its header
HwTxDone ==
    /\ ~crashed
    /\ hw_tx_fifo # <<>>
    /\ HwEvents < MaxHwEvents
    /\ hw_tx_fifo' = Tail(hw_tx_fifo)
    /\ tx_mem' = IF mode = "dma"
                 THEN [tx_mem EXCEPT ![Head(hw_tx_fifo).slot].tx_flags = 1]
                 ELSE tx_mem
    /\ mac' = [mac EXCEPT !.tx_frames = @ + 1]
    /\ UNCHANGED <<update_vars, attach, mode, info, rx_fifo, tx_fifo, rx_mem, hw_rx_fifo, hw_link,
                   carrier, queue_stopped, rx_bytes, rx_dropped, tx_bytes,
                   tx_dropped, pc, rx_len, admin, last_xmit, crashed>>

\* receive slots the hardware may fill: the oldest one queued in the rx fifo
\* (DMA), a slot whose length field reads zero (direct memory)
HwRxSlots ==
    IF mode = "dma"
    THEN IF hw_rx_fifo = <<>> THEN {} ELSE {Head(hw_rx_fifo).addr}
    ELSE {s \in DOMAIN rx_mem : rx_mem[s].length = 0}

\* the hardware stores a frame: it stamps the length and, with DMA, sets
\* CCAT_FRAME_RECEIVED
HwRxDone ==
    /\ ~crashed
    /\ HwEvents < MaxHwEvents
    /\ \E s \in HwRxSlots, len \in RxLengths :
         /\ mode = "iomem" => len # 0
         /\ rx_mem' = [rx_mem EXCEPT ![s].length = len,
                                     ![s].rx_flags = IF mode = "dma" THEN 1 ELSE @]
    /\ hw_rx_fifo' = IF mode = "dma" THEN Tail(hw_rx_fifo) ELSE hw_rx_fifo
    /\ mac' = [mac EXCEPT !.rx_frames = @ + 1]
    /\ UNCHANGED <<update_vars, attach, mode, info, rx_fifo, tx_fifo, tx_mem, hw_tx_fifo, hw_link,
                   carrier, queue_stopped, rx_bytes, rx_dropped, tx_bytes,
                   tx_dropped, pc, rx_len, admin, last_xmit, crashed>>

Next ==
    \/ StartXmit
    \/ poll_link
    \/ poll_rx_ready
    \/ ccat_eth_receive
    \/ poll_rx_add
    \/ poll_rx_inc
    \/ poll_tx
    \/ ccat_eth_open
    \/ ccat_eth_stop
    \/ hrtimer_cancel
    \/ ccat_eth_remove
    \/ HwLinkChange
    \/ HwTxDone
    \/ HwRxDone

Spec == Init /\ [][Next]_vars

(***************************************************************************)
(* Properties                                                              *)
(***************************************************************************)
\* slots of the frames the hardware transmit fifo holds
TxHwSlots == {hw_tx_fifo[i].slot : i \in DOMAIN hw_tx_fifo}

\* a step in which ccat_eth_start_xmit() published a frame
Published == tx_bytes' # tx_bytes

\* the slot that frame was written to
PublishedSlot == hw_tx_fifo'[Len(hw_tx_fifo')].slot

HwRxOwned ==
    IF mode = "dma"
    THEN {hw_rx_fifo[i].addr : i \in DOMAIN hw_rx_fifo}
    ELSE {s \in DOMAIN rx_mem : rx_mem[s].length = 0}

\* C2: in both backends the receive path copies the payload of a slot only
\* after rx_ready returned a nonzero length for that slot, re-arms the slot
\* only after the copy and before the cursor advances, and never reads a slot
\* the hardware owns.
C2_RxOrder ==
    /\ [](pc = "rx_receive" =>
            /\ rx_len # 0
            /\ rx_len = rx_ready(mode, rx_fifo, rx_mem)
            /\ rx_fifo.next \notin HwRxOwned)
    /\ [](pc = "rx_add" => rx_fifo.next \notin HwRxOwned)
    /\ [][(pc = "rx_receive" /\ pc' # pc) =>
            (pc' = "rx_add" /\ rx_fifo' = rx_fifo /\ rx_mem' = rx_mem
             /\ hw_rx_fifo' = hw_rx_fifo)]_vars
    /\ [][(pc = "rx_add" /\ pc' # pc) =>
            (pc' = "rx_inc" /\ rx_fifo' = rx_fifo /\ rx_fifo.next \in HwRxOwned')]_vars
    /\ [][rx_fifo' # rx_fifo => pc \in {"rx_inc", "idle"}]_vars

\* a received frame was copied out and its slot is about to be re-armed
C2_Witness == pc = "rx_add" /\ rx_bytes > 0

\* C3 as stated: the cursor of each ring is a slot address with
\* start <= next <= end, and advancing from end yields start.
C3_CursorInRange ==
    \A fifo \in {rx_fifo, tx_fifo} :
        /\ fifo.next % FRAME_SIZE = 0
        /\ 0 <= fifo.next
        /\ fifo.next <= fifo.end
        /\ ccat_eth_fifo_inc([fifo EXCEPT !.next = fifo.end]).next = 0

\* number of slot addresses in [start, end] (one for a ring whose end lies
\* before its first slot: the cursor then stays on start)
RingLength(fifo) == Cardinality(RingSlots(fifo))

\* the ring with its cursor on slot s
AtSlot(fifo, s) == [fifo EXCEPT !.next = s]

\* C4: for every ring and every cursor position, N = ring length advances
\* bring the cursor back to where it was, and fewer than N (but at least one)
\* do not.
C4_WrapAround ==
    \A fifo \in {rx_fifo, tx_fifo} :
        \A s \in RingSlots(fifo) :
            /\ IncTimes(AtSlot(fifo, s), RingLength(fifo)).next = s
            /\ \A k \in 1..(RingLength(fifo) - 1) : IncTimes(AtSlot(fifo, s), k).next # s

\* on a transmit ring of two slots the cursor is back on start after the
\* forwarding frame and one frame of the stack
C4_Witness ==
    /\ RingLength(tx_fifo) = 2
    /\ tx_fifo.next = 0
    /\ tx_bytes > FORWARD_FRAME_LEN
    /\ mac.link_lost_err = 0

\* C5 as stated: in DMA mode each ring has 64 slots: from start the cursor
\* visits start + k * 2048 for k = 0..63 and then start again, and end is the
\* address of the 64th slot.
C5_DmaRingHas64Slots ==
    mode = "dma" =>
        \A fifo \in {rx_fifo, tx_fifo} :
            /\ fifo.end = (FIFO_LENGTH - 1) * FRAME_SIZE
            /\ \A k \in 0..(FIFO_LENGTH - 1) :
                   IncTimes(AtSlot(fifo, 0), k).next = k * FRAME_SIZE
            /\ IncTimes(AtSlot(fifo, 0), FIFO_LENGTH).next = 0

\* the slots the cursor cycles through from start
CycleSlots(fifo) == {IncTimes(AtSlot(fifo, 0), k).next : k \in 0..RingLength(fifo)}

\* C6 as stated: in direct-memory mode the number of slots the cursor of a
\* ring cycles through is that ring's reported window size divided by the
\* slot size, for the receive ring and for the transmit ring.
C6_IomemRingLength ==
    mode = "iomem" =>
        /\ Cardinality(CycleSlots(rx_fifo)) = info.rx_size \div FRAME_SIZE
        /\ Cardinality(CycleSlots(tx_fifo)) = info.tx_size \div FRAME_SIZE

\* a contiguous frame of acceptable length
AcceptedSkb == [len |-> 60, nonlinear |-> FALSE, data |-> "skb"]

RECURSIVE Submits(_, _, _)
\* the transmit side after k calls of ccat_eth_start_xmit(), back to back
Submits(m, t, k) ==
    IF k = 0 THEN t ELSE ccat_eth_start_xmit(m, Submits(m, t, k - 1), AcceptedSkb)

\* DMA transmit rings of one slot and more, and the ring of the device
DmaTxRings == {TxRing} \cup {NewRing((n - 1) * FRAME_SIZE, TRUE) : n \in 1..(MaxSlots + 1)}

\* the transmit side of priv in the state that follows this step
TxRingNext == [fifo |-> tx_fifo', mem |-> tx_mem', hw |-> hw_tx_fifo', log |-> <<>>]

\* C7: in DMA mode, on a freshly reset transmit ring of N slots and with no
\* completion by the hardware, each of the first N submits finds the ring
\* ready and is published, the N-th and no earlier one stops the queue, and
\* the next one is rejected as busy and publishes nothing; and every submit
\* that publishes leaves the queue stopped exactly when the slot at the new
\* cursor is not ready.
C7_PauseAtRingFull ==
    /\ [](mode = "dma" =>
            \A ring \in DmaTxRings :
                LET n == RingLength(ring.fifo)
                    t0 == [TxSide EXCEPT !.r = ccat_eth_fifo_reset("dma", "tx", ring),
                                         !.queue_stopped = FALSE]
                    full == Submits("dma", t0, n)
                    extra == Submits("dma", t0, n + 1)
                IN  /\ \A k \in 1..n :
                          LET before == Submits("dma", t0, k - 1)
                              after == Submits("dma", t0, k)
                          IN  /\ tx_ready("dma", before.r)
                              /\ after.ret = "NETDEV_TX_OK"
                              /\ Len(after.r.hw) = k
                              /\ after.r.hw[k].frame = AcceptedSkb
                              /\ after.tx_bytes = before.tx_bytes + AcceptedSkb.len
                              /\ after.queue_stopped <=> (k = n)
                    /\ ~tx_ready("dma", full.r)
                    /\ extra.ret = "NETDEV_TX_BUSY"
                    /\ extra.r = full.r
                    /\ extra.tx_bytes = full.tx_bytes)
    /\ [][(mode = "dma" /\ StartXmit /\ tx_bytes' # tx_bytes) =>
            (queue_stopped' <=> ~tx_ready("dma", TxRingNext))]_vars

\* a frame of the stack was published on the DMA ring after the hardware had
\* sent the forwarding frame, and the submit stopped the queue
C7_Witness ==
    /\ mode = "dma"
    /\ last_xmit.ret = "NETDEV_TX_OK"
    /\ queue_stopped
    /\ Len(hw_tx_fifo) = 1
    /\ hw_tx_fifo[1].frame.data = "skb"
    /\ carrier

\* the step of a poll tick that finds the link bit up while carrier is down
LinkUpTick == ~crashed /\ pc = "idle" /\ hw_link /\ ~carrier /\ (pc' = "rx" \/ crashed')

\* C8 as stated: every poll tick that finds the link bit up while carrier is
\* down publishes exactly one frame, the 30 byte forwarding frame, and leaves
\* carrier up and the queue running, in both backends.
C8_LinkUpPublishesOneFrame ==
    [][LinkUpTick =>
        /\ Len(hw_tx_fifo') = 1
        /\ hw_tx_fifo'[1].frame = ForwardSkb
        /\ tx_mem'[hw_tx_fifo'[1].slot].length = FORWARD_FRAME_LEN
        /\ tx_bytes' = tx_bytes + FORWARD_FRAME_LEN
        /\ carrier'
        /\ ~queue_stopped']_vars

\* the step in which ccat_eth_link_up() ran and returned
LinkUpReturned == pc = "idle" /\ hw_link /\ ~carrier /\ pc' = "rx"

\* C9 as stated: when ccat_eth_link_up() has returned both cursors equal
\* start.
C9_BothCursorsAtStart ==
    [][LinkUpReturned => (rx_fifo'.next = 0 /\ tx_fifo'.next = 0)]_vars

\* C9, amended: when ccat_eth_link_up() has returned the receive cursor equals
\* start and the transmit cursor is one advance past start, the forwarding
\* frame being in the start slot.
C9_TxCursorPastForwardFrame ==
    [][LinkUpReturned =>
        /\ rx_fifo'.next = 0
        /\ tx_fifo'.next = ccat_eth_fifo_inc(AtSlot(tx_fifo, 0)).next
        /\ tx_mem'[0].data = "forward"
        /\ tx_mem'[0].length = FORWARD_FRAME_LEN]_vars

\* a second link-up has returned on a transmit ring of two slots
C9_Witness ==
    /\ RingLength(tx_fifo) = 2
    /\ pc = "rx" /\ carrier
    /\ mac.link_lost_err > 0
    /\ tx_fifo.next = FRAME_SIZE
    /\ tx_mem[0].data = "forward"

\* the register write and the fifo->add calls a reset of the ring makes
ExpectedResetLog(fifo) ==
    (IF fifo.reg THEN << <<"reg_reset">> >> ELSE <<>>)
    \o [i \in 1..RingLength(fifo) |-> <<"add", (i - 1) * FRAME_SIZE>>]

\* C10: a reset of a ring, from any state the ring can be in, zeroes the fifo
\* register first (not at all when the ring has none), then calls fifo->add
\* once on every slot in order from start, and leaves the cursor on start.
C10_ResetArmsEverySlotOnce ==
    \A dir \in {"rx", "tx"} :
        LET r == IF dir = "rx" THEN RxRing ELSE TxRing
            after == ccat_eth_fifo_reset(mode, dir, r)
        IN  /\ after.log = ExpectedResetLog(r.fifo)
            /\ after.fifo.next = 0
            /\ after.fifo.end = r.fifo.end
            /\ (mode = "dma" /\ dir = "rx") =>
                   /\ after.hw = [i \in 1..RingLength(r.fifo) |->
                                     DmaRxWord((i - 1) * FRAME_SIZE)]
                   /\ \A s \in RingSlots(r.fifo) : after.mem[s].rx_flags = 0
            /\ (mode = "dma" /\ dir = "tx") =>
                   /\ after.hw = <<>>
                   /\ \A s \in RingSlots(r.fifo) : after.mem[s].tx_flags = 1
            /\ (mode = "iomem" /\ dir = "rx") =>
                   /\ after.hw = r.hw
                   /\ \A s \in RingSlots(r.fifo) : after.mem[s].length = 0
            /\ (mode = "iomem" /\ dir = "tx") => (after.hw = <<>> /\ after.mem = r.mem)

\* a link-up is about to reset a transmit ring of two slots whose cursor is
\* off start and whose hardware fifo holds a frame
C10_Witness ==
    /\ RingLength(tx_fifo) = 2
    /\ tx_fifo.next = FRAME_SIZE
    /\ hw_tx_fifo # <<>>
    /\ pc = "idle" /\ hw_link /\ ~carrier

\* what priv->rx_fifo.ready() returns on slot s with the ring memory mem
ReadyAt(s, mem) == rx_ready(mode, AtSlot(rx_fifo, s), mem)

\* C11: the fifo->add() call of poll_rx acts on a slot on which ready() is
\* nonzero and leaves ready() zero on it, by clearing rx_flags (DMA) or the
\* length (direct memory); and ready() of a slot turns from zero to nonzero
\* only in a step in which the hardware completes a frame.
C11_ArmClearsReady ==
    /\ [][(pc = "rx_add" /\ pc' = "rx_inc") =>
            /\ ReadyAt(rx_fifo.next, rx_mem) # 0
            /\ ReadyAt(rx_fifo.next, rx_mem') = 0
            /\ mode = "dma" => rx_mem'[rx_fifo.next].rx_flags = 0
            /\ mode = "iomem" => rx_mem'[rx_fifo.next].length = 0]_vars
    /\ [][\A s \in DOMAIN rx_mem :
            (ReadyAt(s, rx_mem) = 0 /\ ReadyAt(s, rx_mem') # 0) =>
                mac'.rx_frames = mac.rx_frames + 1]_vars

\* a delivered frame's slot was re-armed and is not ready
C11_Witness ==
    /\ pc = "rx_inc"
    /\ rx_bytes > 0
    /\ ReadyAt(rx_fifo.next, rx_mem) = 0

\* frames the stack may submit
TxSkbs == [len : TxLengths, nonlinear : BOOLEAN, data : {"skb"}]

\* frames ccat_eth_start_xmit() does not drop
Acceptable(skb) == ~skb.nonlinear /\ skb.len <= MAX_PAYLOAD_SIZE

\* C12: in every state, a submit of a non-contiguous or oversized frame
\* returns NETDEV_TX_OK, frees the buffer, adds one to tx_dropped and leaves
\* tx_bytes, the transmit ring (cursor, slots, hardware fifo) and the queue
\* state as they are.
C12_DropConsumed ==
    \A skb \in TxSkbs :
        ~Acceptable(skb) =>
            LET t == ccat_eth_start_xmit(mode, TxSide, skb)
            IN  /\ t.ret = "NETDEV_TX_OK"
                /\ t.freed
                /\ t.tx_dropped = tx_dropped + 1
                /\ t.tx_bytes = tx_bytes
                /\ t.r = TxRing
                /\ t.queue_stopped = queue_stopped

\* the stack's frame was dropped: only the forwarding frame was published
C12_Witness ==
    /\ tx_dropped = 1
    /\ tx_bytes = FORWARD_FRAME_LEN
    /\ last_xmit = [ret |-> "NETDEV_TX_OK", freed |-> TRUE]
    /\ ~queue_stopped

\* C13: in every state in which tx_ready() is false, a submit of an
\* acceptable frame leaves the transmit cursor, every transmit slot, the
\* hardware fifo and tx_bytes unchanged; and a submit step that returned
\* NETDEV_TX_BUSY changed none of them.
C13_BusyKeepsRing ==
    /\ [](~tx_ready(mode, TxRing) =>
            \A skb \in TxSkbs :
                Acceptable(skb) =>
                    LET t == ccat_eth_start_xmit(mode, TxSide, skb)
                    IN  /\ t.r.fifo = tx_fifo
                        /\ t.r.mem = tx_mem
                        /\ t.r.hw = hw_tx_fifo
                        /\ t.tx_bytes = tx_bytes)
    /\ [][(StartXmit /\ last_xmit'.ret = "NETDEV_TX_BUSY") =>
            UNCHANGED <<tx_fifo, tx_mem, hw_tx_fifo, tx_bytes>>]_vars

\* a submit was rejected as busy while the hardware still holds the frame of
\* the slot at the cursor
C13_Witness ==
    /\ last_xmit.ret = "NETDEV_TX_BUSY"
    /\ hw_tx_fifo # <<>>
    /\ ~tx_ready(mode, TxRing)

\* C14 as stated: a submit of an acceptable frame while tx_ready() is false
\* reports the frame consumed, adds one to tx_dropped and releases the buffer.
C14_BusyCountedAsDrop ==
    ~tx_ready(mode, TxRing) =>
        \A skb \in TxSkbs :
            Acceptable(skb) =>
                LET t == ccat_eth_start_xmit(mode, TxSide, skb)
                IN  /\ t.ret = "NETDEV_TX_OK"
                    /\ t.tx_dropped = tx_dropped + 1
                    /\ t.freed

\* C14, amended: a submit of an acceptable frame while tx_ready() is false
\* returns NETDEV_TX_BUSY, stops the queue, keeps the buffer with the caller
\* and changes neither tx_dropped nor tx_bytes.
C14_BusyNotCounted ==
    /\ [](~tx_ready(mode, TxRing) =>
            \A skb \in TxSkbs :
                Acceptable(skb) =>
                    LET t == ccat_eth_start_xmit(mode, TxSide, skb)
                    IN  /\ t.ret = "NETDEV_TX_BUSY"
                        /\ ~t.freed
                        /\ t.queue_stopped
                        /\ t.tx_dropped = tx_dropped
                        /\ t.tx_bytes = tx_bytes)
    /\ [][(StartXmit /\ last_xmit'.ret = "NETDEV_TX_BUSY") =>
            (queue_stopped' /\ ~last_xmit'.freed /\ UNCHANGED <<tx_dropped, tx_bytes>>)]_vars

\* a submit was rejected as busy: queue stopped, buffer not freed, nothing
\* counted as dropped
C14_Witness ==
    /\ last_xmit = [ret |-> "NETDEV_TX_BUSY", freed |-> FALSE]
    /\ queue_stopped
    /\ tx_dropped = 0
    /\ admin = "up" /\ carrier

\* a step of the poll timer callback
PollStep ==
    poll_link \/ poll_rx_ready \/ ccat_eth_receive \/ poll_rx_add \/ poll_rx_inc \/ poll_tx

\* C15 as stated: every tick runs poll_link, then poll_rx, then poll_tx, each
\* once and in that order, and ends with the timer armed again: the step that
\* runs poll_link is followed by poll_rx, poll_rx hands over to poll_tx only,
\* poll_tx is entered from poll_rx only and leaves the timer armed.
C15_TickOrder ==
    [][/\ poll_link => pc' = "rx"
       /\ poll_rx_ready => pc' \in {"rx_receive", "tx"}
       /\ ccat_eth_receive => pc' = "rx_add"
       /\ poll_rx_add => pc' = "rx_inc"
       /\ poll_rx_inc => pc' = "rx"
       /\ poll_tx => pc' = "idle"
       /\ (pc' = "rx" /\ pc # "rx") => (poll_link \/ poll_rx_inc)
       /\ (pc' = "tx" /\ pc # "tx") => poll_rx_ready
       /\ (pc' = "idle" /\ pc # "idle") => (poll_tx \/ ccat_eth_open)]_vars

\* C16 as stated: no step of the poll timer callback writes the transmit
\* cursor, a transmit slot or the transmit fifo register; the cursor and the
\* software-written fields of the slots change in submit steps of the stack
\* only.
C16_PollLeavesTxRing ==
    [][/\ PollStep => UNCHANGED <<tx_fifo, tx_mem, hw_tx_fifo>>
       /\ (tx_fifo' # tx_fifo
           \/ \E s \in DOMAIN tx_mem : \/ tx_mem'[s].length # tx_mem[s].length
                                       \/ tx_mem'[s].data # tx_mem[s].data)
            => StartXmit]_vars

\* C17: while the interface is closed or detached no tick is running or
\* armed; every step of the poll callback runs on an open interface (or one
\* whose close is waiting for it) and never on released rings; and the rings
\* are released only when the timer is off.
C17_PollStoppedBeforeFree ==
    /\ [](admin \in {"down", "removed"} => pc = "off")
    /\ [][PollStep => (admin \in {"up", "stopping"} /\ admin' # "removed")]_vars
    /\ [][ccat_eth_remove => (pc = "off" /\ pc' = "off")]_vars

\* an interface that has carried traffic was closed and detached
C17_Witness ==
    /\ admin = "removed"
    /\ pc = "off"
    /\ rx_bytes > 0
    /\ tx_bytes > 0

\* resources held after the first n calls of the log
RECURSIVE HeldAfter(_, _)
HeldAfter(log, n) ==
    IF n = 0 THEN {}
    ELSE IF log[n][1] = "acquire" THEN HeldAfter(log, n - 1) \cup {log[n][2]}
         ELSE HeldAfter(log, n - 1) \ {log[n][2]}

\* position of the acquire call of resource res
AcquiredAt(log, res) == CHOOSE i \in DOMAIN log : log[i] = <<"acquire", res>>

\* C18 as stated: when a DMA attach fails, it reports failure without a
\* registered interface, every release is of a resource held at that moment,
\* nothing stays held, and resources are released in reverse order of their
\* acquisition.
C18_AttachFailureUnwinds ==
    admin = "failed" =>
        LET releases == {i \in DOMAIN attach.log : attach.log[i][1] = "release"}
        IN  /\ attach.ret # 0
            /\ ~attach.registered
            /\ \A i \in releases : attach.log[i][2] \in HeldAfter(attach.log, i - 1)
            /\ HeldAfter(attach.log, Len(attach.log)) = {}
            /\ \A i, j \in releases :
                   (i < j /\ attach.log[i][2] \in HeldAfter(attach.log, i - 1)
                          /\ attach.log[j][2] \in HeldAfter(attach.log, j - 1)) =>
                       AcquiredAt(attach.log, attach.log[i][2])
                           > AcquiredAt(attach.log, attach.log[j][2])

\* C19 as stated: an attached direct-memory interface exists only for a
\* device whose reported receive and transmit windows hold at least one slot.
C19_SmallWindowRejected ==
    mode = "iomem" => (info.rx_size >= FRAME_SIZE /\ info.tx_size >= FRAME_SIZE)

\* the header bytes the backend's ready() takes off the stored length:
\* OVERHEAD of fifo_dma_rx_ready() and of fifo_iomem_rx_ready()
Overhead(m) == IF m = "dma" THEN RX_FLAGS_OFFSET ELSE HDR_NODMA_SIZE

\* the slot is signalled as received: bit 0 of rx_flags (DMA); always, the
\* length alone decides (direct memory)
Signalled(m, frame) == IF m = "dma" THEN frame.rx_flags % 2 = 1 ELSE TRUE

\* what frame_ready is to return on a frame header
FrameReady(m, frame) ==
    IF Signalled(m, frame) /\ frame.length >= Overhead(m)
    THEN frame.length - Overhead(m) ELSE 0

\* headers a receive slot may hold
RxHeaders ==
    [rx_flags : 0..3, length : RxLengths \cup {0, RX_FLAGS_OFFSET, HDR_NODMA_SIZE},
     tx_flags : {0}, data : {"none"}]

BarrierBeforeReg(stores) ==
    \E b, g \in DOMAIN stores :
        /\ stores[b] = "wmb"
        /\ stores[g] = "reg"
        /\ b < g
        /\ \A k \in DOMAIN stores : stores[k] \notin {"wmb", "reg"} => k < b

\* C21: every word in the tx fifo register was written after a write barrier
\* that follows the last header and payload store of its frame, in both
\* backends
C21_BarrierBeforePublish ==
    \A i \in DOMAIN hw_tx_fifo : BarrierBeforeReg(hw_tx_fifo[i].stores)

(***************************************************************************)
(* Statistics counters.                                                    *)
(***************************************************************************)
\* this step wrote a new word to the tx fifo register: it appended to the
\* register's queue, or it is a link-up that emptied the queue and appended
PublishedStep ==
    /\ Len(hw_tx_fifo') > 0
    /\ \/ Len(hw_tx_fifo') = Len(hw_tx_fifo) + 1
       \/ LinkUpTick /\ ~crashed'

\* this step is a ccat_eth_receive() that handed a frame to the stack
DeliveredStep ==
    /\ pc = "rx_receive"
    /\ pc' = "rx_add"
    /\ rx_dropped' = rx_dropped

\* C22: no step decreases any of the four counters; a step that publishes a
\* frame adds exactly the frame's length to tx_bytes and no other step changes
\* tx_bytes; a step that delivers a frame adds exactly the delivered length
\* to rx_bytes and no other step changes rx_bytes
C22_CountersMonotoneAndExact ==
    [][/\ rx_bytes' >= rx_bytes
       /\ rx_dropped' >= rx_dropped
       /\ tx_bytes' >= tx_bytes
       /\ tx_dropped' >= tx_dropped
       /\ PublishedStep =>
              tx_bytes' = tx_bytes + hw_tx_fifo'[Len(hw_tx_fifo')].frame.len
       /\ tx_bytes' # tx_bytes => PublishedStep
       /\ DeliveredStep => rx_bytes' = rx_bytes + rx_len
       /\ rx_bytes' # rx_bytes => DeliveredStep]_vars

\* a frame was published, a frame was delivered and a frame was dropped
C22_Witness ==
    /\ tx_bytes > 0
    /\ rx_bytes > 0
    /\ tx_dropped > 0

(***************************************************************************)
(* Allocation failure in the receive poll.                                 *)
(***************************************************************************)
\* this step is a ccat_eth_receive() whose dev_alloc_skb() returned NULL
AllocFailedStep ==
    /\ pc = "rx_receive"
    /\ rx_dropped' # rx_dropped

\* C23: a poll that is in ccat_eth_receive() does not crash; when the
\* allocation fails rx_dropped grows by one, rx_bytes is unchanged (nothing is
\* delivered) and the poll goes on to fifo->add(), which re-arms the slot at
\* the cursor, and then to ccat_eth_fifo_inc(), which advances the cursor.
C23_AllocFailureDropsAndContinues ==
    /\ [][pc = "rx_receive" => ~crashed']_vars
    /\ [][AllocFailedStep =>
            /\ rx_dropped' = rx_dropped + 1
            /\ rx_bytes' = rx_bytes
            /\ pc' = "rx_add"]_vars
    /\ [][(pc = "rx_add" /\ pc' # pc) =>
            /\ pc' = "rx_inc"
            /\ ReadyAt(rx_fifo.next, rx_mem') = 0
            /\ rx_fifo.next \in HwRxOwned']_vars
    /\ [][(pc = "rx_inc" /\ pc' # pc) =>
            /\ pc' = "rx"
            /\ rx_fifo' = ccat_eth_fifo_inc(rx_fifo)]_vars

\* a frame was dropped for want of an skb and the poll went on to poll_tx
C23_Witness ==
    /\ rx_dropped > 0
    /\ rx_bytes = 0
    /\ pc = "tx"
    /\ ~crashed

(***************************************************************************)
(* The word of the DMA tx fifo register.                                   *)
(***************************************************************************)
\* C24: in the DMA backend every word written to the tx fifo register holds
\* the slot's byte offset plus 8 in its low 24 bits and (len + 24) / 8 in its
\* top 8 bits, for every frame length the submit path accepts.
C24_TxWordEncodesOffsetAndLength ==
    mode = "dma" =>
        \A i \in DOMAIN hw_tx_fifo :
            LET e == hw_tx_fifo[i]
            IN  /\ e.frame.len <= MAX_PAYLOAD_SIZE
                /\ e.word.addr = e.slot + LENGTH_OFFSET
                /\ e.word.size = (e.frame.len + HDR_DMA_SIZE) \div 8

(***************************************************************************)
(* Queue state and carrier.                                                *)
(***************************************************************************)
\* C25: no step of a poll tick resumes the transmit queue while carrier is
\* down: a poll step that ends with carrier down leaves a paused queue paused.
C25_NoWakeWhileCarrierDown ==
    [][(PollStep /\ ~carrier' /\ queue_stopped) => queue_stopped']_vars

\* C26: whenever the stack may submit (interface up, carrier on, queue awake)
\* tx_ready() is true, and so no ccat_eth_start_xmit call takes the
\* "Tx Ring full when queue awake" branch, in both backends.
C26_ReadyWhenAwake ==
    /\ (~crashed /\ admin = "up" /\ carrier /\ ~queue_stopped) =>
            tx_ready(mode, TxRing)
    /\ last_xmit.ret # "NETDEV_TX_BUSY"

(***************************************************************************)
(* Progress of reception.  poll_timer_callback() returns HRTIMER_RESTART   *)
(* after hrtimer_forward_now(), so while the timer is armed the callback   *)
(* keeps running and each of its steps is eventually taken.                *)
(***************************************************************************)
FairSpec == Spec /\ WF_vars(PollStep)

\* the slot at the receive cursor holds a completion on which ready()
\* returns 0: the hardware signalled it and its length is below the overhead
\* or equal to it
MalformedAtCursor ==
    /\ rx_fifo.next \notin HwRxOwned
    /\ Signalled(mode, rx_mem[rx_fifo.next])
    /\ rx_ready(mode, rx_fifo, rx_mem) = 0

\* C27: a malformed completion at the receive cursor does not stay there for
\* ever while the interface is up: later ticks eventually get past it, so
\* that the slot is handed back to the hardware and later frames can be
\* delivered.
C27_MalformedCompletionPassed ==
    (MalformedAtCursor /\ admin = "up" /\ ~crashed)
        ~> (~MalformedAtCursor \/ admin # "up" \/ crashed)

(***************************************************************************)
(* Length of the copy out of a receive slot.                               *)
(***************************************************************************)
\* bytes of a slot behind its header: sizeof(data) of struct frame_dma and of
\* struct frame_iomem
PayloadArea(m) ==
    FRAME_SIZE - (IF m = "dma" THEN HDR_DMA_SIZE ELSE HDR_NODMA_SIZE)

\* C28: the length ccat_eth_receive() passes to copy_to_skb never exceeds the
\* payload area of the slot, whatever 16 bit length the hardware stamped.
C28_CopyWithinSlot ==
    pc = "rx_receive" => rx_len <= PayloadArea(mode)

(***************************************************************************)
(* The flash update device: open, read, write and release of its character *)
(* device.  A process p is in file[p].pc:                                   *)
(*   "closed"        no call in progress, no handle                        *)
(*   "open_busy"     in ccat_update_open, atomic_dec_and_test returned     *)
(*                   false, atomic_inc not yet done                        *)
(*   "open_alloc"    in ccat_update_open, atomic_dec_and_test returned     *)
(*                   true, kzalloc not yet returned                        *)
(*   "opened"        holds a handle                                        *)
(*   "rel_enable", "rel_erase", "rel_wait", "write_flash", "blk_wait",     *)
(*   "rel_free"      in ccat_update_release                                *)
(***************************************************************************)
\* atomic_dec_and_test(v): the new value, and whether it is zero
atomic_dec_and_test(v) == [v |-> v - 1, zero |-> v - 1 = 0]

SetFile(p, f) == file' = [file EXCEPT ![p] = f]

\* ccat_update_open(): atomic_dec_and_test(&update->in_use)
ccat_update_open(p) ==
    /\ file[p].pc = "closed"
    /\ LET d == atomic_dec_and_test(in_use)
       IN  /\ in_use' = d.v
           /\ SetFile(p, [file[p] EXCEPT
                              !.pc = IF d.zero THEN "open_alloc" ELSE "open_busy",
                              !.ret = "none"])
    /\ UNCHANGED <<flash_cmds, netdev_vars>>

\* ccat_update_open() whose busy path returns without atomic_inc()
ccat_update_open_busy_no_inc(p) ==
    /\ file[p].pc = "open_busy"
    /\ SetFile(p, [file[p] EXCEPT !.pc = "closed", !.ret = "EBUSY"])
    /\ UNCHANGED <<in_use, flash_cmds, netdev_vars>>

\* ccat_update_open(): atomic_inc(&update->in_use); return -EBUSY
ccat_update_open_busy(p) ==
    /\ file[p].pc = "open_busy"
    /\ in_use' = in_use + 1
    /\ SetFile(p, [file[p] EXCEPT !.pc = "closed", !.ret = "EBUSY"])
    /\ UNCHANGED <<flash_cmds, netdev_vars>>

\* ccat_update_open(): buf = kzalloc(); on NULL atomic_inc and -ENOMEM, else
\* the zeroed buffer becomes f->private_data of a new struct file
ccat_update_open_alloc(p) ==
    /\ file[p].pc = "open_alloc"
    /\ \E alloc_ok \in BOOLEAN :
         IF alloc_ok
         THEN /\ SetFile(p, [ClosedFile EXCEPT !.pc = "opened", !.ret = "0"])
              /\ UNCHANGED in_use
         ELSE /\ SetFile(p, [file[p] EXCEPT !.pc = "closed", !.ret = "ENOMEM"])
              /\ in_use' = in_use + 1
    /\ UNCHANGED <<flash_cmds, netdev_vars>>

\* ccat_update_write() without `if (*off + len > sizeof(update->data))`
ccat_update_write_file_unbounded(f, pos, len, positional, uncopied) ==
    IF uncopied > 0
    THEN [f EXCEPT !.ret = "EFAULT",
                   !.copied = [at |-> pos, bytes |-> len - uncopied]]
    ELSE [f EXCEPT !.f_pos = IF positional THEN @ ELSE pos + len,
                   !.size = pos + len,
                   !.copied = [at |-> pos, bytes |-> len],
                   !.count = len,
                   !.ret = "written"]

\* ccat_update_write() on the struct file f and its update_buffer, called
\* with *off = pos and len; copy_from_user() leaves `uncopied` bytes
\* uncopied.  count is the value returned by the last call that returned a
\* byte count, copied the area of the last copy_from_user(), f_pos the file
\* position, which a positional write leaves alone.
ccat_update_write_file(f, pos, len, positional, uncopied) ==
    IF pos + len > CCAT_FLASH_SIZE
    THEN [f EXCEPT !.ret = "0", !.count = 0]
    ELSE IF uncopied > 0
    THEN [f EXCEPT !.ret = "EFAULT",
                   !.copied = [at |-> pos, bytes |-> len - uncopied]]
    ELSE [f EXCEPT !.f_pos = IF positional THEN @ ELSE pos + len,
                   !.size = pos + len,
                   !.copied = [at |-> pos, bytes |-> len],
                   !.count = len,
                   !.ret = "written"]

\* ccat_update_write() at position pos (the file position, or the position
\* of a pwrite, which leaves the file position alone): nothing is written
\* past the buffer; a faulting user buffer gives -EFAULT
ccat_update_write(p) ==
    /\ file[p].pc = "opened"
    /\ \E len \in WriteLens, pos \in {file[p].f_pos} \cup WritePositions,
          positional \in BOOLEAN, uncopied \in {0, 1} :
         /\ ~positional => pos = file[p].f_pos
         /\ pos + len <= MaxStaged
         /\ SetFile(p, ccat_update_write_file(file[p], pos, len, positional, uncopied))
    /\ UNCHANGED <<in_use, flash_cmds, netdev_vars>>

\* ccat_update_read() of len bytes at the file position: the position moves
\* by the bytes read, clipped at the end of the flash
ccat_update_read(p) ==
    /\ file[p].pc = "opened"
    /\ \E len \in WriteLens :
         /\ file[p].f_pos + len <= MaxStaged
         /\ SetFile(p, [file[p] EXCEPT
                          !.f_pos = IF @ >= CCAT_FLASH_SIZE THEN @
                                    ELSE IF @ + len >= CCAT_FLASH_SIZE
                                    THEN CCAT_FLASH_SIZE ELSE @ + len,
                          !.ret = "read"])
    /\ UNCHANGED <<in_use, flash_cmds, netdev_vars>>

\* ccat_update_release(): `if (buf->size > 0)`; no write follows on this
\* handle, what is recorded of its last write is dropped
ccat_update_release(p) ==
    /\ file[p].pc = "opened"
    /\ SetFile(p, [file[p] EXCEPT
                     !.pc = IF file[p].size > 0 THEN "rel_enable" ELSE "rel_free",
                     !.ret = "none", !.count = 0, !.copied = ClosedFile.copied])
    /\ UNCHANGED <<in_use, flash_cmds, netdev_vars>>

\* ccat_update_release(): ccat_update_cmd(update->ioaddr, CCAT_WRITE_ENABLE)
release_write_enable(p) ==
    /\ file[p].pc = "rel_enable"
    /\ flash_cmds' = Append(flash_cmds, [cmd |-> "WRITE_ENABLE"])
    /\ SetFile(p, [file[p] EXCEPT !.pc = "rel_erase"])
    /\ UNCHANGED <<in_use, netdev_vars>>

\* ccat_update_release(): ccat_update_cmd(update->ioaddr, CCAT_BULK_ERASE)
release_bulk_erase(p) ==
    /\ file[p].pc = "rel_erase"
    /\ flash_cmds' = Append(flash_cmds, [cmd |-> "BULK_ERASE"])
    /\ SetFile(p, [file[p] EXCEPT !.pc = "rel_wait", !.polls = 0])
    /\ UNCHANGED <<in_use, netdev_vars>>

\* ccat_wait_status_cleared(): one ccat_get_status(); while bit 7 is set the
\* loop repeats, else it returns: to ccat_write_flash() at its start
\* (off = 0, len = update->size), or to ccat_write_flash() behind the block
\* just written
ccat_wait_status_cleared(p) ==
    /\ file[p].pc \in {"rel_wait", "blk_wait"}
    /\ \E busy \in BOOLEAN :
         /\ busy => file[p].polls < MaxStatusPolls
         /\ flash_cmds' = Append(flash_cmds, [cmd |-> "READ_STATUS", busy |-> busy])
         /\ IF busy
            THEN SetFile(p, [file[p] EXCEPT !.polls = @ + 1])
            ELSE IF file[p].pc = "rel_wait"
            THEN SetFile(p, [file[p] EXCEPT !.pc = "write_flash", !.polls = 0,
                                            !.off = 0, !.len = file[p].size])
            ELSE IF file[p].len > CCAT_WRITE_BLOCK_SIZE
            THEN SetFile(p, [file[p] EXCEPT
                               !.pc = "write_flash", !.polls = 0,
                               !.off = @ + CCAT_WRITE_BLOCK_SIZE,
                               !.len = @ - CCAT_WRITE_BLOCK_SIZE])
            ELSE SetFile(p, [file[p] EXCEPT !.pc = "rel_free", !.polls = 0])
    /\ UNCHANGED <<in_use, netdev_vars>>

\* ccat_write_flash_block() without its ccat_update_cmd(CCAT_WRITE_ENABLE)
ccat_write_flash_block_no_enable(addr, len) ==
    <<[cmd |-> "WRITE_FLASH", addr |-> addr, len |-> len]>>

\* ccat_write_flash_block(): the commands it issues before it waits
ccat_write_flash_block(addr, len) ==
    <<[cmd |-> "WRITE_ENABLE"], [cmd |-> "WRITE_FLASH", addr |-> addr, len |-> len]>>

\* ccat_write_flash(): the next ccat_write_flash_block() call, of
\* CCAT_WRITE_BLOCK_SIZE bytes while len > CCAT_WRITE_BLOCK_SIZE, of len
\* bytes at last
ccat_write_flash(p) ==
    /\ file[p].pc = "write_flash"
    /\ LET n == IF file[p].len > CCAT_WRITE_BLOCK_SIZE
                THEN CCAT_WRITE_BLOCK_SIZE ELSE file[p].len
       IN  flash_cmds' = flash_cmds \o ccat_write_flash_block(file[p].off, n)
    /\ SetFile(p, [file[p] EXCEPT !.pc = "blk_wait"])
    /\ UNCHANGED <<in_use, netdev_vars>>

\* ccat_update_release(): kfree(f->private_data); atomic_inc(&update->in_use);
\* the struct file is gone and the call's command log ends
release_free(p) ==
    /\ file[p].pc = "rel_free"
    /\ in_use' = in_use + 1
    /\ SetFile(p, [ClosedFile EXCEPT !.ret = "0"])
    /\ flash_cmds' = <<>>
    /\ UNCHANGED netdev_vars

UpdateInit ==
    /\ Init
    /\ mode = "dma"
    /\ attach.ret = 0

UpdateNext ==
    \E p \in Openers :
        \/ ccat_update_open(p)
        \/ ccat_update_open_busy(p)
        \/ ccat_update_open_alloc(p)
        \/ ccat_update_write(p)
        \/ ccat_update_read(p)
        \/ ccat_update_release(p)
        \/ release_write_enable(p)
        \/ release_bulk_erase(p)
        \/ ccat_wait_status_cleared(p)
        \/ ccat_write_flash(p)
        \/ release_free(p)

UpdateSpec == UpdateInit /\ [][UpdateNext]_vars

(***************************************************************************)
(* Exclusive open of the update device.                                    *)
(***************************************************************************)
\* processes inside ccat_update_open()
Opening == {p \in Openers : file[p].pc \in {"open_busy", "open_alloc"}}

\* processes that hold a handle: from the return of a successful open to the
\* atomic_inc() of their release
Handles == {p \in Openers : file[p].pc \notin {"closed", "open_busy", "open_alloc"}}

\* process p enters ccat_update_open() in this step
OpenIssued(p) == file[p].pc = "closed" /\ file'[p].pc # "closed"

\* process p leaves ccat_update_open() behind its kzalloc() in this step
OpenAllocated(p) == file[p].pc = "open_alloc" /\ file'[p].pc # "open_alloc"

\* C29 as stated, its last part: an open issued while no handle is open and
\* no other open is in progress succeeds.  Such an open is the only one that
\* gets to kzalloc(), so: every open that gets there returns a handle.
C29_QuietOpenSucceeds ==
    [][\A p \in Openers : OpenAllocated(p) =>
            (file'[p].pc = "opened" /\ file'[p].ret = "0")]_vars

\* C29: at most one handle is open at a time and an open issued while one is
\* open returns -EBUSY; in_use is 1 whenever no handle is open and no open is
\* in progress; an open issued while no handle is open and no open is in
\* progress is not refused as busy: it returns a handle, or -ENOMEM with
\* in_use put back when kzalloc() fails.
C29_OpenExclusive ==
    /\ [](Cardinality(Handles) <= 1)
    /\ []((Handles = {} /\ Opening = {}) => in_use = 1)
    /\ [][\A p \in Openers :
            /\ (OpenIssued(p) /\ Handles # {}) => file'[p].pc = "open_busy"
            /\ (OpenIssued(p) /\ Handles = {} /\ Opening = {}) =>
                   file'[p].pc = "open_alloc"
            /\ (file[p].pc = "open_busy" /\ file'[p].pc # "open_busy") =>
                   (file'[p].pc = "closed" /\ file'[p].ret = "EBUSY")
            /\ OpenAllocated(p) =>
                   \/ file'[p].pc = "opened" /\ file'[p].ret = "0"
                   \/ /\ file'[p].pc = "closed"
                      /\ file'[p].ret = "ENOMEM"
                      /\ in_use' = in_use + 1]_vars

\* one process has released its handle and another one holds a handle now
C29_Witness ==
    \E p, q \in Openers :
        /\ file[p].pc = "closed"
        /\ file[p].ret = "0"
        /\ file[q].pc = "opened"
        /\ in_use = 0

(***************************************************************************)
(* Flash commands of a release.                                            *)
(***************************************************************************)
\* a ccat_get_status() that found bit 7 set: ccat_wait_status_cleared() asks again
BusyStatus(c) == c.cmd = "READ_STATUS" /\ c.busy

\* the commands without the status reads that were repeated: every wait for
\* status cleared is left as one READ_STATUS
Waited(cmds) == SelectSeq(cmds, LAMBDA c : ~BusyStatus(c))

RECURSIVE SumOfBlocks(_, _)
\* bytes of the first n block writes of the waited commands q
SumOfBlocks(q, n) == IF n = 0 THEN 0 ELSE q[3 * n + 2].len + SumOfBlocks(q, n - 1)

\* C30: when ccat_update_release() has issued its commands: with size = 0
\* there is none; with size > 0 they are WRITE_ENABLE, BULK_ERASE, a wait for
\* status cleared, then block writes, each one a WRITE_ENABLE, a WRITE_FLASH
\* of at most 128 bytes and a wait for status cleared, at strictly increasing
\* addresses from 0 and with lengths that sum to size; a status read that
\* finds the flash busy is followed by another status read.
C30_ReleaseCommands ==
    \A p \in Openers : file[p].pc = "rel_free" =>
        IF file[p].size = 0
        THEN flash_cmds = <<>>
        ELSE LET q == Waited(flash_cmds)
                 n == (Len(q) - 3) \div 3
             IN  /\ \A i \in DOMAIN flash_cmds : BusyStatus(flash_cmds[i]) =>
                        (i < Len(flash_cmds) /\ flash_cmds[i + 1].cmd = "READ_STATUS")
                 /\ Len(q) = 3 + 3 * n
                 /\ n >= 1
                 /\ q[1].cmd = "WRITE_ENABLE"
                 /\ q[2].cmd = "BULK_ERASE"
                 /\ q[3].cmd = "READ_STATUS"
                 /\ \A k \in 1..n :
                        /\ q[3 * k + 1].cmd = "WRITE_ENABLE"
                        /\ q[3 * k + 2].cmd = "WRITE_FLASH"
                        /\ q[3 * k + 3].cmd = "READ_STATUS"
                        /\ q[3 * k + 2].len <= CCAT_WRITE_BLOCK_SIZE
                        /\ k = 1 => q[3 * k + 2].addr = 0
                        /\ k > 1 => q[3 * k + 2].addr > q[3 * k - 1].addr
                 /\ SumOfBlocks(q, n) = file[p].size

\* a release of more than two blocks has issued all its commands, and the
\* flash was busy at one status read at least
C30_Witness ==
    \E p \in Openers :
        /\ file[p].pc = "rel_free"
        /\ file[p].size > 2 * CCAT_WRITE_BLOCK_SIZE
        /\ \E i \in DOMAIN flash_cmds : BusyStatus(flash_cmds[i])

(***************************************************************************)
(* Writes at the end of the flash.  A process holds the handle; reads have *)
(* moved its file position close to the end of the flash, and it writes    *)
(* there, at the file position or positionally.                            *)
(***************************************************************************)
\* file positions at the start, and positions of the positional writes
EndPositions ==
    {CCAT_FLASH_SIZE - 2 * CCAT_WRITE_BLOCK_SIZE,
     CCAT_FLASH_SIZE - CCAT_WRITE_BLOCK_SIZE,
     CCAT_FLASH_SIZE}

\* lengths of the writes at the end of the flash
EndLens == WriteLens \cup {0}

WriteInit ==
    /\ NetdevInit
    /\ mode = "dma"
    /\ attach.ret = 0
    /\ in_use = 0
    /\ flash_cmds = <<>>
    /\ \E start \in EndPositions :
         file = [p \in Openers |->
                    IF p = 1
                    THEN [ClosedFile EXCEPT !.pc = "opened", !.ret = "read",
                                            !.f_pos = start]
                    ELSE ClosedFile]

\* ccat_update_write() at the end of the flash
ccat_update_write_end(p) ==
    /\ file[p].pc = "opened"
    /\ \E len \in EndLens, pos \in {file[p].f_pos} \cup EndPositions,
          positional \in BOOLEAN, uncopied \in {0, 1} :
         /\ ~positional => pos = file[p].f_pos
         /\ uncopied <= len
         /\ SetFile(p, ccat_update_write_file(file[p], pos, len, positional, uncopied))
    /\ UNCHANGED <<in_use, flash_cmds, netdev_vars>>

WriteNext == \E p \in Openers : ccat_update_write_end(p)

WriteSpec == WriteInit /\ [][WriteNext]_vars

\* C31: on every open file, a write with offset + length above the flash
\* size returns 0 and leaves the buffer, the file position and the recorded
\* size as they are; any other write whose user buffer is readable copies
\* exactly `length` bytes to the buffer at the offset, returns `length`,
\* moves the offset to offset + length and records that as the size; and the
\* recorded size never exceeds the flash size.
C31_WriteWithinFlash ==
    \A p \in Openers : file[p].pc = "opened" =>
        /\ file[p].size <= CCAT_FLASH_SIZE
        /\ file[p].copied.at + file[p].copied.bytes <= CCAT_FLASH_SIZE
        /\ \A len \in EndLens, pos \in {file[p].f_pos} \cup EndPositions,
              positional \in BOOLEAN :
              LET f == file[p]
                  r == ccat_update_write_file(f, pos, len, positional, 0)
              IN  IF pos + len > CCAT_FLASH_SIZE
                  THEN /\ r.count = 0
                       /\ r.copied = f.copied
                       /\ r.f_pos = f.f_pos
                       /\ r.size = f.size
                  ELSE /\ r.count = len
                       /\ r.copied = [at |-> pos, bytes |-> len]
                       /\ r.size = pos + len
                       /\ r.size <= CCAT_FLASH_SIZE
                       /\ ~positional => r.f_pos = pos + len

\* a write that ended exactly at the end of the flash was accepted, and a
\* later write from there was refused
C31_Witness ==
    \E p \in Openers :
        /\ file[p].pc = "opened"
        /\ file[p].size = CCAT_FLASH_SIZE
        /\ file[p].copied = [at |-> CCAT_FLASH_SIZE - CCAT_WRITE_BLOCK_SIZE,
                             bytes |-> CCAT_WRITE_BLOCK_SIZE]
        /\ file[p].f_pos = CCAT_FLASH_SIZE
        /\ file[p].ret = "0"
====
